---- MODULE Spec2Model ----
(***************************************************************************)
(* A model of frontend/src/lib/k8s/pod.ts: the Pod class' stream sessions  *)
(* (getLogs, exec, attach) and its detailed status (getDetailedStatus with *)
(* its one-slot cache).                                                    *)
(***************************************************************************)
EXTENDS Integers, Sequences, FiniteSets, TLC

(***************************************************************************)
(* Bounds of the model.                                                    *)
(***************************************************************************)
MaxFrames == 3
MaxFails == 3
MaxConnects == 2
MaxCancels == 2

\* Two sessions, enough for one to interfere with another.
Sessions == {1, 2}

\* The value of an absent (undefined) JavaScript property.
Undefined == "undefined"

(***************************************************************************)
(* Stream sessions.                                                        *)
(*                                                                         *)
(* A frame on the wire is a base64 string, modelled as the sequence of its *)
(* sextets (0..63, padding stripped); a decoded text is the sequence of    *)
(* its bytes.                                                              *)
(***************************************************************************)
VARIABLES
  kind,            \* session -> "none" | "log" | "exec" | "attach"
  follow,          \* session -> the follow option of getLogs
  onReconnectStop, \* session -> whether an onReconnectStop callback was supplied
  isReconnecting,  \* session -> the closure flag of getLogs
  logs,            \* session -> the closure buffer of getLogs
  cancelled,       \* session -> the stream was cancelled through its handle
  cancelCalls,     \* session -> number of calls of the cancel handle
  cancelledAt,     \* session -> connects seen when cancel was first called, -1 before
  connects,        \* session -> number of connectCb invocations
  fails,           \* session -> number of failCb invocations
  stops,           \* session -> number of onReconnectStop invocations
  received,        \* session -> frames handed to onResults since the last connect
  nResults,        \* session -> number of invocations of the result callback
  handed,          \* session -> the value last handed to the result callback
  dropped,         \* session -> frames the stream swallowed after cancel
  url,             \* session -> the endpoint the stream was opened on
  logsOptions,     \* session -> the logsOptions getLogs was called with
  sent             \* number of frames the transport produced, all sessions

streamVars == <<kind, follow, onReconnectStop, isReconnecting, logs, cancelled,
                cancelCalls, cancelledAt, connects, fails, stops, received,
                nResults, handed, dropped, url, logsOptions, sent>>

\* "YQ", "YWI" and "" as sextet sequences.
Frames == {<<>>, <<24, 16>>, <<24, 22, 8>>}

RECURSIVE Base64Decode(_)
Base64Decode(s) ==
  IF Len(s) < 2 THEN <<>>
  ELSE IF Len(s) = 2 THEN <<s[1] * 4 + (s[2] \div 16)>>
  ELSE IF Len(s) = 3 THEN <<s[1] * 4 + (s[2] \div 16), (s[2] % 16) * 16 + (s[3] \div 4)>>
  ELSE <<s[1] * 4 + (s[2] \div 16), (s[2] % 16) * 16 + (s[3] \div 4), (s[3] % 4) * 64 + s[4]>>
       \o Base64Decode(SubSeq(s, 5, Len(s)))

RECURSIVE SumOver(_, _)
SumOver(f, S) ==
  IF S = {} THEN 0 ELSE LET x == CHOOSE y \in S : TRUE IN f[x] + SumOver(f, S \ {x})

\* Total of a per-session counter.
Total(f) == SumOver(f, Sessions)

InitStream ==
  /\ kind = [s \in Sessions |-> "none"]
  /\ follow = [s \in Sessions |-> FALSE]
  /\ onReconnectStop = [s \in Sessions |-> FALSE]
  /\ isReconnecting = [s \in Sessions |-> FALSE]
  /\ logs = [s \in Sessions |-> <<>>]
  /\ cancelled = [s \in Sessions |-> FALSE]
  /\ cancelCalls = [s \in Sessions |-> 0]
  /\ cancelledAt = [s \in Sessions |-> -1]
  /\ connects = [s \in Sessions |-> 0]
  /\ fails = [s \in Sessions |-> 0]
  /\ stops = [s \in Sessions |-> 0]
  /\ received = [s \in Sessions |-> <<>>]
  /\ nResults = [s \in Sessions |-> 0]
  /\ handed = [s \in Sessions |-> <<>>]
  /\ dropped = [s \in Sessions |-> 0]
  /\ url = [s \in Sessions |-> <<>>]
  /\ logsOptions = [s \in Sessions |-> <<>>]
  /\ sent = 0

\* The part of stream() every session kind shares: a fresh, uncancelled stream.
OpenStream(s, k) ==
  /\ kind[s] = "none"
  /\ kind' = [kind EXCEPT ![s] = k]
  /\ UNCHANGED <<cancelled, cancelCalls, cancelledAt, connects, fails, stops,
                 received, nResults, handed, dropped, sent>>

\* `${b}` of a boolean.
BoolText(b) == IF b THEN "true" ELSE "false"

\* b ? 1 : 0 in a template.
BitText(b) == IF b THEN "1" ELSE "0"

\* o.f of a destructuring with a default.
OrDefault(o, f, default) == IF f \in DOMAIN o THEN o[f] ELSE default

\* The tailLines of a call that gives none.
DefaultTailLines == 100

OmitsTailLinesNegative(tailLines) == tailLines < 0

\* tailLines !== -1 is false: the endpoint gets no tailLines parameter.
OmitsTailLines(tailLines) == tailLines = -1

\* The endpoint getLogs builds: its path and its query parameters in order.
LogsUrl(options) ==
  LET tailLines == OrDefault(options, "tailLines", DefaultTailLines)
      showPrevious == OrDefault(options, "showPrevious", FALSE)
      showTimestamps == OrDefault(options, "showTimestamps", FALSE)
      followed == OrDefault(options, "follow", TRUE)
      query == << <<"container", "c">>,
                  <<"previous", BoolText(showPrevious)>>,
                  <<"timestamps", BoolText(showTimestamps)>>,
                  <<"follow", BoolText(followed)>> >>
  IN  [path |-> "/api/v1/namespaces/ns/pods/pod/log",
       query |-> IF OmitsTailLines(tailLines) THEN query
                 ELSE Append(query, <<"tailLines", ToString(tailLines)>>)]

\* The endpoint of exec with its default options.
ExecUrl ==
  [path |-> "/api/v1/namespaces/ns/pods/pod/exec",
   query |-> << <<"container", "c">>, <<"command", "sh">>,
                <<"stdin", BitText(TRUE)>>, <<"stderr", BitText(TRUE)>>,
                <<"stdout", BitText(TRUE)>>, <<"tty", BitText(TRUE)>> >>]

\* The endpoint of attach.
AttachUrl ==
  [path |-> "/api/v1/namespaces/ns/pods/pod/attach",
   query |-> << <<"container", "c">>, <<"stdin", "true">>, <<"stderr", "true">>,
                <<"stdout", "true">>, <<"tty", "true">> >>]

\* getLogs(container, onLogs, logsOptions).
GetLogs(s, options) ==
  /\ OpenStream(s, "log")
  /\ isReconnecting' = [isReconnecting EXCEPT ![s] = TRUE]
  /\ follow' = [follow EXCEPT ![s] = OrDefault(options, "follow", TRUE)]
  /\ onReconnectStop' = [onReconnectStop EXCEPT ![s] = "onReconnectStop" \in DOMAIN options]
  /\ logs' = [logs EXCEPT ![s] = <<>>]
  /\ url' = [url EXCEPT ![s] = LogsUrl(options)]
  /\ logsOptions' = [logsOptions EXCEPT ![s] = options]

\* getLogs(container, tailLines, showPrevious, onLogs), the deprecated form.
GetLogsOld(s, tailLines, showPrevious) ==
  GetLogs(s, [tailLines |-> tailLines, showPrevious |-> showPrevious])

\* exec(container, onExec, options).
Exec(s) ==
  /\ OpenStream(s, "exec")
  /\ url' = [url EXCEPT ![s] = ExecUrl]
  /\ UNCHANGED <<isReconnecting, follow, onReconnectStop, logs, logsOptions>>

\* attach(container, onAttach, options).
Attach(s) ==
  /\ OpenStream(s, "attach")
  /\ url' = [url EXCEPT ![s] = AttachUrl]
  /\ UNCHANGED <<isReconnecting, follow, onReconnectStop, logs, logsOptions>>

StreamDeliversAfterCancel(s) == TRUE

\* Whether the stream still hands an inbound frame to its result callback.
StreamDelivers(s) == ~cancelled[s]

PushedDeltaOnly(buf, item) == <<Base64Decode(item)>>

PushedShared(buf, item) == Append(logs[1], Base64Decode(item))

\* The buffer after onResults pushed the decoded frame.
Pushed(buf, item) == Append(buf, Base64Decode(item))

IsDroppedNever(item) == FALSE

\* !item: the frame is the empty string.
IsDropped(item) == item = <<>>

\* onResults(item) of a log session, called by the stream for an inbound frame.
OnResults(s, item) ==
  /\ kind[s] = "log"
  /\ StreamDelivers(s)
  /\ sent < MaxFrames
  /\ sent' = sent + 1
  /\ received' = [received EXCEPT ![s] = Append(@, item)]
  /\ IF IsDropped(item)
     THEN UNCHANGED <<logs, nResults, handed>>
     ELSE /\ logs' = [logs EXCEPT ![s] = Pushed(@, item)]
          /\ nResults' = [nResults EXCEPT ![s] = @ + 1]
          /\ handed' = [handed EXCEPT ![s] = logs'[s]]
  /\ UNCHANGED <<url, logsOptions, kind, follow, onReconnectStop, isReconnecting, cancelled,
                 cancelCalls, cancelledAt, connects, fails, stops, dropped>>

\* The result callback of an exec or attach session: the raw frame, undecoded
\* (isJson: false); handed holds it as a one-element list.
OnRawResult(s, item) ==
  /\ kind[s] \in {"exec", "attach"}
  /\ StreamDelivers(s)
  /\ sent < MaxFrames
  /\ sent' = sent + 1
  /\ nResults' = [nResults EXCEPT ![s] = @ + 1]
  /\ handed' = [handed EXCEPT ![s] = <<item>>]
  /\ UNCHANGED <<url, logsOptions, kind, follow, onReconnectStop, isReconnecting, logs, cancelled,
                 cancelCalls, cancelledAt, connects, fails, stops, received, dropped>>

\* A frame the transport produced for a cancelled stream: no callback runs.
FrameDropped(s, item) ==
  /\ kind[s] # "none"
  /\ ~StreamDelivers(s)
  /\ sent < MaxFrames
  /\ sent' = sent + 1
  /\ dropped' = [dropped EXCEPT ![s] = @ + 1]
  /\ UNCHANGED <<url, logsOptions, kind, follow, onReconnectStop, isReconnecting, logs, cancelled,
                 cancelCalls, cancelledAt, connects, fails, stops, received,
                 nResults, handed>>

ResetKeeps(buf) == buf

\* The buffer after connectCb.
Reset(buf) == <<>>

\* connectCb of getLogs (for exec and attach the caller's own callback).
ConnectCb(s) ==
  /\ kind[s] # "none"
  /\ Total(connects) < MaxConnects
  /\ connects' = [connects EXCEPT ![s] = @ + 1]
  /\ received' = [received EXCEPT ![s] = <<>>]
  /\ logs' = [logs EXCEPT ![s] = IF kind[s] = "log" THEN Reset(@) ELSE @]
  /\ UNCHANGED <<url, logsOptions, kind, follow, onReconnectStop, isReconnecting, cancelled,
                 cancelCalls, cancelledAt, fails, stops, nResults, handed,
                 dropped, sent>>

StopsReconnectEveryTime(s) == follow[s]

\* The condition under which failCb declares reconnection stopped.
StopsReconnect(s) == follow[s] /\ isReconnecting[s]

\* failCb of getLogs (for exec and attach the caller's own callback).
FailCb(s) ==
  /\ kind[s] # "none"
  /\ Total(fails) < MaxFails
  /\ fails' = [fails EXCEPT ![s] = @ + 1]
  /\ IF kind[s] = "log" /\ StopsReconnect(s)
     THEN /\ isReconnecting' = [isReconnecting EXCEPT ![s] = FALSE]
          /\ stops' = [stops EXCEPT ![s] = IF onReconnectStop[s] THEN @ + 1 ELSE @]
     ELSE UNCHANGED <<isReconnecting, stops>>
  /\ UNCHANGED <<url, logsOptions, kind, follow, onReconnectStop, logs, cancelled, cancelCalls,
                 cancelledAt, connects, received, nResults, handed, dropped, sent>>

\* The cancel handle stream() returned.
Cancel(s) ==
  /\ kind[s] # "none"
  /\ Total(cancelCalls) < MaxCancels
  /\ cancelCalls' = [cancelCalls EXCEPT ![s] = @ + 1]
  /\ cancelled' = [cancelled EXCEPT ![s] = TRUE]
  /\ cancelledAt' = [cancelledAt EXCEPT ![s] = IF cancelled[s] THEN @ ELSE connects[s]]
  /\ UNCHANGED <<url, logsOptions, kind, follow, onReconnectStop, isReconnecting, logs, connects,
                 fails, stops, received, nResults, handed, dropped, sent>>

(***************************************************************************)
(* The pod object and its detailed status.                                 *)
(*                                                                         *)
(* A JavaScript object is a record; an absent property is a field missing  *)
(* from its domain. Dates are numbers of milliseconds since the epoch.     *)
(***************************************************************************)
VARIABLES
  jsonData,            \* the pod snapshot the object holds
  detailedStatusCache, \* {} or {resourceVersion, details}
  lastCall,            \* how the last getDetailedStatus call since the last
                       \* snapshot change ended: "none", "hit", "miss", "threw"
  returned             \* what that call returned ({} when none or it threw)

podVars == <<jsonData, detailedStatusCache, lastCall, returned>>

vars == <<streamVars, podVars>>

\* The object {}.
Empty == [f \in {} |-> TRUE]

Has(o, f) == f \in DOMAIN o

\* o.f || '' for a string property.
StrOr(o, f) == IF Has(o, f) THEN o[f] ELSE ""

\* A property that may be absent: no field, or the field with one of vs.
Optional(f, vs) == {Empty} \cup {f :> v : v \in vs}

\* a ?? [] (and a || []) for a list property.
ListOr(o, f) == IF Has(o, f) THEN o[f] ELSE <<>>

getLastRestartDateLastSeen(container, lastRestartDate) ==
  IF Has(container, "lastState") /\ Has(container.lastState, "terminated")
  THEN container.lastState.terminated.finishedAt
  ELSE lastRestartDate

\* getLastRestartDate(container, lastRestartDate).
getLastRestartDate(container, lastRestartDate) ==
  IF Has(container, "lastState") /\ Has(container.lastState, "terminated")
  THEN LET terminatedDate == container.lastState.terminated.finishedAt
       IN  IF lastRestartDate < terminatedDate THEN terminatedDate ELSE lastRestartDate
  ELSE lastRestartDate

\* The Status property a condition is asked for.
ConditionStatus(condition) ==
  IF Has(condition, "Status") THEN condition.Status ELSE Undefined

\* hasPodReadyCondition(conditions), for a list of conditions.
hasPodReadyCondition(conditions) ==
  \E i \in 1..Len(conditions) :
    conditions[i].type = "Ready" /\ ConditionStatus(conditions[i]) = "True"

\* `${signal}` of a terminated state.
SignalText(terminated) ==
  IF Has(terminated, "signal") THEN ToString(terminated.signal) ELSE Undefined

\* signal !== 0 of a terminated state.
SignalSet(terminated) == ~(Has(terminated, "signal") /\ terminated.signal = 0)

\* The reason made up for a terminated state that has none.
SynthesizedReason(terminated) ==
  IF SignalSet(terminated)
  THEN "Signal:" \o SignalText(terminated)
  ELSE "ExitCode:" \o ToString(terminated.exitCode)

InitialReasonPhaseOnly(pod) == pod.status.phase

InitialReasonNoFallback(pod) == StrOr(pod.status, "reason")

\* status.reason || status.phase.
InitialReason(pod) ==
  IF StrOr(pod.status, "reason") # "" THEN pod.status.reason ELSE pod.status.phase

LocalsReadyFromSpec(pod) ==
  [restarts |-> 0,
   totalContainers |-> Len(ListOr(pod.spec, "containers")),
   readyContainers |-> Len(ListOr(pod.spec, "containers")),
   message |-> "",
   lastRestartDate |-> 0,
   reason |-> InitialReason(pod),
   initializing |-> FALSE,
   hasRunning |-> FALSE]

\* The locals of getDetailedStatus before its loops.
Locals(pod) ==
  [restarts |-> 0,
   totalContainers |-> Len(ListOr(pod.spec, "containers")),
   readyContainers |-> 0,
   message |-> "",
   lastRestartDate |-> 0,
   reason |-> InitialReason(pod),
   initializing |-> FALSE,
   hasRunning |-> FALSE]

InitBlockedYetMain(pod, i, container, acc) ==
  LET state == container.state IN
  IF Has(state, "terminated")
  THEN [acc EXCEPT
          !.reason = IF StrOr(state.terminated, "reason") = ""
                     THEN "Init:" \o SynthesizedReason(state.terminated)
                     ELSE "Init:" \o state.terminated.reason,
          !.message = StrOr(state.terminated, "message")]
  ELSE IF /\ Has(state, "waiting")
          /\ StrOr(state.waiting, "reason") # ""
          /\ state.waiting.reason # "PodInitializing"
  THEN [acc EXCEPT
          !.reason = "Init:" \o state.waiting.reason,
          !.message = StrOr(state.waiting, "message")]
  ELSE [acc EXCEPT
          !.reason = "Init:" \o ToString(i - 1) \o "/"
                       \o ToString(Len(ListOr(pod.spec, "initContainers")))]

\* The switch of the init loop for a container that did not exit with 0.
InitBlocked(pod, i, container, acc) ==
  LET state == container.state IN
  IF Has(state, "terminated")
  THEN [acc EXCEPT
          !.reason = IF StrOr(state.terminated, "reason") = ""
                     THEN "Init:" \o SynthesizedReason(state.terminated)
                     ELSE "Init:" \o state.terminated.reason,
          !.message = StrOr(state.terminated, "message"),
          !.initializing = TRUE]
  ELSE IF /\ Has(state, "waiting")
          /\ StrOr(state.waiting, "reason") # ""
          /\ state.waiting.reason # "PodInitializing"
  THEN [acc EXCEPT
          !.reason = "Init:" \o state.waiting.reason,
          !.message = StrOr(state.waiting, "message"),
          !.initializing = TRUE]
  ELSE [acc EXCEPT
          !.reason = "Init:" \o ToString(i - 1) \o "/"
                       \o ToString(Len(ListOr(pod.spec, "initContainers"))),
          !.initializing = TRUE]

\* The init loop from its i-th container on (i counts from 1).
RECURSIVE InitLoop(_, _, _)
InitLoop(pod, i, acc) ==
  LET statuses == ListOr(pod.status, "initContainerStatuses") IN
  IF i > Len(statuses) THEN acc
  ELSE LET container == statuses[i]
           counted == [acc EXCEPT
                         !.restarts = @ + container.restartCount,
                         !.lastRestartDate = getLastRestartDate(container, @)]
       IN  IF /\ Has(container.state, "terminated")
              /\ container.state.terminated.exitCode = 0
           THEN InitLoop(pod, i + 1, counted)
           ELSE InitBlocked(pod, i, container, counted)

\* One iteration of the main loop.
MainStep(container, acc) ==
  LET state == container.state
      counted == [acc EXCEPT
                    !.restarts = @ + container.restartCount,
                    !.lastRestartDate = getLastRestartDate(container, @)]
  IN
  IF Has(state, "waiting") /\ StrOr(state.waiting, "reason") # ""
  THEN [counted EXCEPT !.reason = state.waiting.reason,
                       !.message = StrOr(state.waiting, "message")]
  ELSE IF Has(state, "terminated") /\ StrOr(state.terminated, "reason") # ""
  THEN [counted EXCEPT !.reason = state.terminated.reason,
                       !.message = StrOr(state.terminated, "message")]
  ELSE IF /\ Has(state, "terminated")
          /\ Has(state.terminated, "reason")
          /\ state.terminated.reason = ""
  THEN [counted EXCEPT !.reason = SynthesizedReason(state.terminated),
                       !.message = StrOr(state.terminated, "message")]
  ELSE IF container.ready /\ Has(state, "running")
  THEN [counted EXCEPT !.hasRunning = TRUE, !.readyContainers = @ + 1]
  ELSE counted

\* The main loop from its i-th container down to the first.
RECURSIVE MainLoop(_, _, _)
MainLoop(pod, i, acc) ==
  IF i < 1 THEN acc
  ELSE MainLoop(pod, i - 1, MainStep(pod.status.containerStatuses[i], acc))

MainPhaseKeepsRestarts(pod, acc) ==
  MainLoop(pod, Len(ListOr(pod.status, "containerStatuses")), acc)

MainPhaseForward(pod, acc) ==
  LET statuses == ListOr(pod.status, "containerStatuses")
      reversed == [i \in 1..Len(statuses) |-> statuses[Len(statuses) + 1 - i]]
  IN  MainLoop([pod EXCEPT !.status = ("containerStatuses" :> reversed) @@ @],
               Len(statuses), [acc EXCEPT !.restarts = 0])

\* The locals after the main loop, entered when no init container blocks.
MainPhase(pod, acc) ==
  MainLoop(pod, Len(ListOr(pod.status, "containerStatuses")),
           [acc EXCEPT !.restarts = 0])

\* Whether the Completed-but-running branch is entered.
NeedsFixup(acc) == acc.reason = "Completed" /\ acc.hasRunning

\* The Completed-but-running branch; it iterates status.conditions.
Fixup(pod, acc) ==
  [acc EXCEPT !.reason = IF hasPodReadyCondition(pod.status.conditions)
                         THEN "Running" ELSE "NotReady"]

DeletionOverrideNodeLostFirst(pod, reason) ==
  IF StrOr(pod.status, "reason") = "NodeLost" THEN "Unknown"
  ELSE IF Has(pod.metadata, "deletionTimestamp") THEN "Terminating"
  ELSE reason

\* The reason after the deletionTimestamp branches.
DeletionOverride(pod, reason) ==
  IF Has(pod.metadata, "deletionTimestamp") /\ StrOr(pod.status, "reason") = "NodeLost"
  THEN "Unknown"
  ELSE IF Has(pod.metadata, "deletionTimestamp") THEN "Terminating"
  ELSE reason

\* The locals before the Completed-but-running branch.
BeforeFixup(pod) ==
  LET afterInit == InitLoop(pod, 1, Locals(pod))
  IN  IF afterInit.initializing THEN afterInit ELSE MainPhase(pod, afterInit)

\* Iterating an absent status.conditions raises a TypeError.
Throws(pod) ==
  LET acc == BeforeFixup(pod)
  IN  ~acc.initializing /\ NeedsFixup(acc) /\ ~Has(pod.status, "conditions")

\* The locals when the deletionTimestamp branches are reached.
AfterFixup(pod) ==
  LET before == BeforeFixup(pod)
  IN  IF ~before.initializing /\ NeedsFixup(before)
      THEN Fixup(pod, before) ELSE before

\* newDetails of a call that does not throw.
NewDetails(pod) ==
  LET acc == AfterFixup(pod)
  IN  [restarts |-> acc.restarts,
       totalContainers |-> acc.totalContainers,
       readyContainers |-> acc.readyContainers,
       reason |-> DeletionOverride(pod, acc.reason),
       lastRestartDate |-> acc.lastRestartDate,
       message |-> acc.message]

\* a === b for two properties that may be absent.
SameProperty(a, b, f) ==
  /\ Has(a, f) <=> Has(b, f)
  /\ Has(a, f) => a[f] = b[f]

\* The cache check that opens getDetailedStatus (written twice in a row).
CacheHit ==
  /\ Has(detailedStatusCache, "details")
  /\ SameProperty(detailedStatusCache, jsonData.metadata, "resourceVersion")

\* The cache slot a call that recomputed stores.
Stored(pod, details) ==
  (IF Has(pod.metadata, "resourceVersion")
   THEN "resourceVersion" :> pod.metadata.resourceVersion ELSE Empty)
  @@ ("details" :> details)

\* getDetailedStatus().
GetDetailedStatus ==
  /\ IF CacheHit
     THEN /\ lastCall' = "hit"
          /\ returned' = detailedStatusCache.details
          /\ UNCHANGED detailedStatusCache
     ELSE IF Throws(jsonData)
     THEN /\ lastCall' = "threw"
          /\ returned' = Empty
          /\ UNCHANGED detailedStatusCache
     ELSE /\ lastCall' = "miss"
          /\ returned' = NewDetails(jsonData)
          /\ detailedStatusCache' = Stored(jsonData, returned')
  /\ UNCHANGED jsonData


\* The owner of the object replaces its snapshot (a new revision of the pod).
SetJsonData(pod) ==
  /\ pod # jsonData
  /\ jsonData' = pod
  /\ lastCall' = "none"
  /\ returned' = Empty
  /\ UNCHANGED detailedStatusCache

(***************************************************************************)
(* The snapshots the model draws from.                                     *)
(***************************************************************************)
\* The most container statuses (init and main together) of a snapshot.
MaxStatuses == 2

Running == [running |-> [startedAt |-> 1]]
Completed == [terminated |-> [exitCode |-> 0, reason |-> "Completed"]]
Failed == [terminated |-> [exitCode |-> 1, reason |-> "Error", message |-> "failed"]]
Killed == [terminated |-> [exitCode |-> 137, signal |-> 9, reason |-> ""]]
Exited == [terminated |-> [exitCode |-> 2, signal |-> 0, reason |-> "", message |-> "exited"]]
ExitedBare == [terminated |-> [exitCode |-> 3]]
PullError == [waiting |-> [reason |-> "ErrImagePull", message |-> "pull failed"]]
PodInitializing == [waiting |-> [reason |-> "PodInitializing"]]

\* state and ready of a container status, for every branch of the two loops.
StateVariants ==
  {[state |-> s, ready |-> FALSE] :
     s \in {Running, Completed, Failed, Killed, Exited, ExitedBare, PullError,
            PodInitializing}}
  \cup {[state |-> Running, ready |-> TRUE]}

\* restartCount and lastState of a container status.
NeverRestarted == [restartCount |-> 0]
RestartVariants ==
  {NeverRestarted,
   [restartCount |-> 1, lastState |-> [terminated |-> [finishedAt |-> 1]]],
   [restartCount |-> 2, lastState |-> [terminated |-> [finishedAt |-> 2]]]}

\* Container statuses that differ in their state only.
ClassifiedStatuses == {v @@ NeverRestarted : v \in StateVariants}

\* Container statuses that differ in their restarts too.
RestartedStatuses ==
  {v @@ r : v \in {x \in StateVariants :
                     x.state \in {Completed, PullError} \/ x.ready},
            r \in RestartVariants}

\* The lists of exactly n elements of S.
ListsOf(S, n) == [1..n -> S]

\* A list property: absent when empty, or present.
ListProperty(f, list) ==
  (IF list = <<>> THEN {Empty} ELSE {}) \cup {f :> list}

\* initContainerStatuses and containerStatuses of a status, MaxStatuses
\* container statuses of S at most in all.
StatusLists(S) ==
  UNION {
    UNION {
      {i @@ m : i \in ListProperty("initContainerStatuses", il),
                m \in ListProperty("containerStatuses", ml)} :
        il \in ListsOf(S, nk[1]), ml \in ListsOf(S, nk[2])} :
      nk \in {x \in (0..MaxStatuses) \X (0..MaxStatuses) : x[1] + x[2] <= MaxStatuses}}

ClassifiedLists == StatusLists(ClassifiedStatuses)

RestartedLists == StatusLists(RestartedStatuses)

\* spec.containers or spec.initContainers with n containers.
Containers(n) == [i \in 1..n |-> [name |-> "c"]]

Ready(status) == [type |-> "Ready", status |-> status]
Scheduled == [type |-> "PodScheduled", status |-> "True"]

\* status.conditions, which may be absent.
ConditionLists ==
  Optional("conditions", {<<>>, <<Scheduled, Ready("True")>>})

\* metadata; deletionTimestamp may be absent.
Metadata(rv) == {rv @@ d : d \in Optional("deletionTimestamp", {5})}

\* A snapshot over every state a container can be in.
ClassifiedSnapshot(md, ph, sr, cl, sl) ==
  [metadata |-> md,
   spec |-> [containers |-> Containers(2), initContainers |-> Containers(2)],
   status |-> [phase |-> ph] @@ sr @@ cl @@ sl]

\* A snapshot over restarted containers and the containers the spec declares.
RestartedSnapshot(md, sc, ic, sl) ==
  [metadata |-> md,
   spec |-> sc @@ ic,
   status |-> [phase |-> "Running", conditions |-> <<Ready("True")>>] @@ sl]

\* The pod object is constructed around any of these snapshots.
InitSnapshot ==
  \/ \E md \in Metadata([resourceVersion |-> "1"]),
        ph \in {"Pending", "Running"},
        sr \in Optional("reason", {"NodeLost", "Evicted"}),
        cl \in ConditionLists,
        sl \in ClassifiedLists :
       jsonData = ClassifiedSnapshot(md, ph, sr, cl, sl)
  \/ \E md \in Metadata([resourceVersion |-> "1"]),
        sc \in Optional("containers", {Containers(1), Containers(2)}),
        ic \in Optional("initContainers", {Containers(1)}),
        sl \in RestartedLists :
       jsonData = RestartedSnapshot(md, sc, ic, sl)

ReadyContainer == [state |-> Running, ready |-> TRUE] @@ NeverRestarted
CompletedContainer == [state |-> Completed, ready |-> FALSE] @@ NeverRestarted

\* The revisions of one pod its owner moves between; resourceVersion may be
\* absent or empty.
Revisions ==
  {[metadata |-> rv,
    spec |-> [containers |-> Containers(2)],
    status |-> [phase |-> ph] @@ cl @@ [containerStatuses |-> ml]] :
     rv \in Optional("resourceVersion", {"", "1", "2"}),
     ph \in {"Pending", "Running"},
     cl \in Optional("conditions", {<<Ready("True")>>}),
     ml \in {<<>>,
             <<ReadyContainer>>,
             <<CompletedContainer, ReadyContainer>>}}

\* The pod whose sessions are followed.
IdlePod ==
  [metadata |-> [resourceVersion |-> "1"],
   spec |-> [containers |-> Containers(1)],
   status |-> [phase |-> "Running", containerStatuses |-> <<ReadyContainer>>]]

\* The constructor: an empty cache slot.
InitPod ==
  /\ detailedStatusCache = Empty
  /\ lastCall = "none"
  /\ returned = Empty


\* The values of tailLines a call is made with.
TailLines == {-2, -1, 0, 1, 100}

\* The logsOptions that give follow and may give onReconnectStop.
FollowOptions ==
  {("follow" :> f) @@ cb :
     f \in BOOLEAN, cb \in Optional("onReconnectStop", {TRUE})}

\* Those that follow the log, the ones a reconnection stop is reported for.
FollowingOptions == {options \in FollowOptions : options.follow}

\* Every logsOptions: each property given or left out.
LogOptions ==
  {tl @@ sp @@ st @@ fo @@ cb :
     tl \in Optional("tailLines", TailLines),
     sp \in Optional("showPrevious", BOOLEAN),
     st \in Optional("showTimestamps", BOOLEAN),
     fo \in Optional("follow", BOOLEAN),
     cb \in Optional("onReconnectStop", {TRUE})}

\* The calls of getLogs, in both its forms.
NextUrl ==
  \/ \E s \in Sessions, options \in LogOptions : GetLogs(s, options) /\ UNCHANGED podVars
  \/ \E s \in Sessions, tailLines \in TailLines, showPrevious \in BOOLEAN :
       GetLogsOld(s, tailLines, showPrevious) /\ UNCHANGED podVars

\* The steps of one session: callers open session 1 only.
NextStream ==
  \/ \E s \in {1}, options \in FollowOptions : GetLogs(s, options) /\ UNCHANGED podVars
  \/ \E s \in {1} : Exec(s) /\ UNCHANGED podVars
  \/ \E s \in {1} : Attach(s) /\ UNCHANGED podVars
  \/ \E s \in Sessions, item \in Frames : OnResults(s, item) /\ UNCHANGED podVars
  \/ \E s \in Sessions, item \in Frames : OnRawResult(s, item) /\ UNCHANGED podVars
  \/ \E s \in Sessions, item \in Frames : FrameDropped(s, item) /\ UNCHANGED podVars
  \/ \E s \in Sessions : ConnectCb(s) /\ UNCHANGED podVars
  \/ \E s \in Sessions : FailCb(s) /\ UNCHANGED podVars
  \/ \E s \in Sessions : Cancel(s) /\ UNCHANGED podVars

\* The steps of two sessions open at once.
NextConcurrent ==
  \/ \E s \in Sessions, options \in FollowingOptions : GetLogs(s, options) /\ UNCHANGED podVars
  \/ \E s \in Sessions, item \in Frames : OnResults(s, item) /\ UNCHANGED podVars
  \/ \E s \in Sessions : ConnectCb(s) /\ UNCHANGED podVars
  \/ \E s \in Sessions : FailCb(s) /\ UNCHANGED podVars

\* The calls of getDetailedStatus() on a snapshot that stays.
NextSynth ==
  \/ GetDetailedStatus /\ CacheHit /\ UNCHANGED streamVars
  \/ GetDetailedStatus /\ ~CacheHit /\ UNCHANGED streamVars

\* The calls of getDetailedStatus() between changes of the snapshot.
NextCache ==
  \/ GetDetailedStatus /\ UNCHANGED streamVars
  \/ \E pod \in Revisions : SetJsonData(pod) /\ UNCHANGED streamVars

\* No session opened yet, on a pod that is left alone.
InitSessions == InitStream /\ InitPod /\ jsonData = IdlePod

\* A fresh pod object around any snapshot.
InitSynth == InitStream /\ InitPod /\ InitSnapshot

\* A fresh pod object around any revision.
InitCache == InitStream /\ InitPod /\ jsonData \in Revisions

\* One session at a time.
StreamSpec == InitSessions /\ [][NextStream]_vars

\* Two sessions open at once.
ConcurrentSpec == InitSessions /\ [][NextConcurrent]_vars

\* Sessions as getLogs opens them, for every logsOptions.
UrlSpec == InitSessions /\ [][NextUrl]_vars

\* getDetailedStatus() of a fresh pod object, for every snapshot.
SynthSpec == InitSynth /\ [][NextSynth]_vars

\* getDetailedStatus() of one pod object whose snapshot changes between calls.
CacheSpec == InitCache /\ [][NextCache]_vars

(***************************************************************************)
(* Properties of the stream sessions.                                      *)
(***************************************************************************)
IsPrefix(a, b) == Len(a) <= Len(b) /\ SubSeq(b, 1, Len(a)) = a

\* The non-empty frames of a sequence of frames, in order.
NonEmpty(fs) == SelectSeq(fs, LAMBDA f : f # <<>>)

\* The texts of a sequence of frames, in order.
DecodeAll(fs) == [i \in 1..Len(fs) |-> Base64Decode(fs[i])]

\* C1: in a log session onReconnectStop runs at most once; after one or more
\* failCb calls it has run exactly once when follow is set and the callback
\* was supplied; it never runs with follow unset or without a callback.
C1_ReconnectStopOnce ==
  \A s \in Sessions : kind[s] = "log" =>
    /\ stops[s] <= 1
    /\ (fails[s] >= 1 /\ follow[s] /\ onReconnectStop[s]) => stops[s] = 1
    /\ ~follow[s] => stops[s] = 0
    /\ ~onReconnectStop[s] => stops[s] = 0

\* Several failures, interleaved with a connect and a delivered frame.
C1_Witness ==
  \E s \in Sessions :
    /\ kind[s] = "log" /\ follow[s] /\ onReconnectStop[s]
    /\ fails[s] >= 3 /\ connects[s] >= 1 /\ nResults[s] >= 1
    /\ stops[s] = 1

\* C2: once cancel() was called the result callback is never invoked again,
\* whatever the transport produces, and a further cancel() changes nothing of
\* the session.
C2_CancelStopsDelivery ==
  [][\A s \in Sessions : cancelled[s] =>
       /\ nResults'[s] = nResults[s]
       /\ handed'[s] = handed[s]
       /\ cancelled'[s]
       /\ cancelCalls'[s] # cancelCalls[s] =>
            /\ logs'[s] = logs[s]
            /\ isReconnecting'[s] = isReconnecting[s]
            /\ cancelledAt'[s] = cancelledAt[s]
            /\ stops'[s] = stops[s]]_streamVars

\* Cancelled before the first connect, cancelled again, then the transport
\* connected and produced a frame.
C2_Witness ==
  \E s \in Sessions :
    /\ cancelledAt[s] = 0 /\ cancelCalls[s] >= 2
    /\ connects[s] >= 1 /\ dropped[s] >= 1 /\ nResults[s] = 0

\* C9 as stated: every buffer handed to onLogs extends the one handed before
\* it, over the whole session.
C9_NeverTruncated ==
  [][\A s \in Sessions :
       (kind[s] = "log" /\ nResults[s] > 0 /\ nResults'[s] > nResults[s])
         => IsPrefix(handed[s], handed'[s])]_streamVars

\* C9 amended: every buffer handed to onLogs extends the one handed before it
\* since the most recent connect; a connect empties the buffer.
C9_GrowsBetweenConnects ==
  [][\A s \in Sessions : kind[s] = "log" =>
       /\ (NonEmpty(received[s]) # <<>> /\ nResults'[s] > nResults[s])
            => /\ IsPrefix(handed[s], handed'[s])
               /\ Len(handed'[s]) = Len(handed[s]) + 1
       /\ connects'[s] > connects[s] => logs'[s] = <<>>]_streamVars

\* Two buffers handed after a connect that followed an earlier delivery.
C9_Witness ==
  \E s \in Sessions :
    /\ kind[s] = "log" /\ connects[s] >= 1
    /\ Len(handed[s]) = 2 /\ nResults[s] = 3

\* C10: a non-empty frame handed to onResults makes exactly one onLogs call,
\* with the texts of the non-empty frames since the most recent connect, in
\* arrival order.
C10_FullBufferDelivered ==
  [][\A s \in Sessions :
       (/\ kind[s] = "log"
        /\ Len(received'[s]) = Len(received[s]) + 1
        /\ received'[s][Len(received'[s])] # <<>>)
         => /\ nResults'[s] = nResults[s] + 1
            /\ handed'[s] = DecodeAll(NonEmpty(received'[s]))]_streamVars

\* After a connect, two non-empty frames with an empty one between them.
C10_Witness ==
  \E s \in Sessions :
    /\ kind[s] = "log" /\ connects[s] >= 1
    /\ Len(received[s]) = 3 /\ received[s][2] = <<>>
    /\ handed[s] = <<Base64Decode(received[s][1]), Base64Decode(received[s][3])>>
    /\ handed[s][1] # handed[s][2]

\* C11: an empty frame handed to onResults leaves the buffer as it is and
\* makes no onLogs call.
C11_EmptyFrameIgnored ==
  [][\A s \in Sessions :
       (/\ kind[s] = "log"
        /\ Len(received'[s]) = Len(received[s]) + 1
        /\ received'[s][Len(received'[s])] = <<>>)
         => /\ logs'[s] = logs[s]
            /\ nResults'[s] = nResults[s]
            /\ handed'[s] = handed[s]]_streamVars

\* An empty frame arrived after a delivered one and the buffer still holds
\* that one text.
C11_Witness ==
  \E s \in Sessions :
    /\ kind[s] = "log"
    /\ Len(received[s]) = 2 /\ received[s][1] # <<>> /\ received[s][2] = <<>>
    /\ Len(logs[s]) = 1 /\ nResults[s] = 1 /\ handed[s] = logs[s]

(***************************************************************************)
(* Properties of getDetailedStatus and its cache.                          *)
(***************************************************************************)
\* The last call returned a DetailedStatus.
Returned == lastCall \in {"hit", "miss"}

\* The conditions hold an entry of type Ready with status True.
ReadyTrue(pod) ==
  \E i \in 1..Len(ListOr(pod.status, "conditions")) :
    /\ pod.status.conditions[i].type = "Ready"
    /\ pod.status.conditions[i].status = "True"

\* The main loop left reason "Completed" with a ready, running container.
CompletedButRunning(pod) ==
  /\ ~BeforeFixup(pod).initializing
  /\ BeforeFixup(pod).reason = "Completed"
  /\ \E i \in 1..Len(ListOr(pod.status, "containerStatuses")) :
       LET c == pod.status.containerStatuses[i]
       IN  c.ready /\ Has(c.state, "running")

\* metadata.resourceVersion is absent or empty.
NoResourceVersion(pod) == StrOr(pod.metadata, "resourceVersion") = ""

\* C3: a returned status of a pod whose main loop left "Completed" with a
\* ready, running container has reason "Running" when the conditions hold
\* {type: "Ready", status: "True"} and "NotReady" otherwise, before the
\* deletion override.
C3_CompletedFixup ==
  (Returned /\ CompletedButRunning(jsonData)) =>
    returned.reason =
      DeletionOverride(jsonData, IF ReadyTrue(jsonData) THEN "Running" ELSE "NotReady")

\* C4: a call on a pod whose resourceVersion is absent or empty never hits
\* the cache; it returns the status of the current snapshot.
C4_NoVersionAlwaysMisses ==
  (Returned /\ NoResourceVersion(jsonData)) =>
    /\ lastCall = "miss"
    /\ returned = NewDetails(jsonData)

\* C5: a call made while the slot holds details under the pod's current
\* resourceVersion returns them and leaves the slot; any other call stores
\* and returns the status of the current snapshot under the current
\* resourceVersion.
C5_CacheHitOrMiss ==
  [][jsonData' = jsonData =>
       IF CacheHit
       THEN /\ returned' = detailedStatusCache.details
            /\ detailedStatusCache' = detailedStatusCache
       ELSE /\ lastCall' = "miss"
            /\ returned' = NewDetails(jsonData)
            /\ detailedStatusCache' = Stored(jsonData, NewDetails(jsonData))]_podVars

\* C6: no call of getDetailedStatus raises an error, whichever optional
\* fields the snapshot lacks.
C6_NeverThrows == lastCall # "threw"

\* C7 as stated: readyContainers <= totalContainers in every returned status.
C7_ReadyAtMostTotal ==
  Returned => returned.readyContainers <= returned.totalContainers

\* C7 amended: readyContainers is at most the number of container statuses,
\* hence at most totalContainers when the spec declares as many containers
\* as there are container statuses, or more.
C7_ReadyAtMostStatuses ==
  Returned =>
    LET statuses == Len(ListOr(jsonData.status, "containerStatuses")) IN
    /\ returned.readyContainers <= statuses
    /\ statuses <= Len(ListOr(jsonData.spec, "containers"))
         => returned.readyContainers <= returned.totalContainers

\* Two ready, running containers counted, as many as the spec declares.
C7_Witness ==
  /\ lastCall = "miss"
  /\ returned.readyContainers = 2
  /\ returned.totalContainers = 2

\* No init container status, no container status and no deletion timestamp.
Bare(pod) ==
  /\ ListOr(pod.status, "initContainerStatuses") = <<>>
  /\ ListOr(pod.status, "containerStatuses") = <<>>
  /\ ~Has(pod.metadata, "deletionTimestamp")

\* C8 as stated: a bare snapshot yields the phase as reason, no restarts and
\* no ready container.
C8_BareReasonIsPhase ==
  (Returned /\ Bare(jsonData)) =>
    /\ returned.reason = jsonData.status.phase
    /\ returned.restarts = 0
    /\ returned.readyContainers = 0

\* C8 amended: a bare snapshot yields the pod's status reason when it has a
\* non-empty one and the phase otherwise, no restarts and no ready container.
C8_BareReasonIsReasonOrPhase ==
  (Returned /\ Bare(jsonData)) =>
    /\ returned.reason = IF StrOr(jsonData.status, "reason") # ""
                         THEN jsonData.status.reason
                         ELSE jsonData.status.phase
    /\ returned.restarts = 0
    /\ returned.readyContainers = 0

\* A bare snapshot with a status reason, and its status returned.
C8_Witness ==
  /\ lastCall = "miss"
  /\ Bare(jsonData)
  /\ Has(jsonData.status, "reason")
  /\ returned.reason = "Evicted"

Deleted(pod) == Has(pod.metadata, "deletionTimestamp")

\* C12: a returned reason is "Unknown" for a deleted pod whose status reason
\* is "NodeLost", "Terminating" for any other deleted pod, and the reason the
\* phases and the fixup computed for a pod that is not deleted.
C12_DeletionOverride ==
  Returned =>
    returned.reason =
      IF Deleted(jsonData)
      THEN IF StrOr(jsonData.status, "reason") = "NodeLost"
           THEN "Unknown" ELSE "Terminating"
      ELSE AfterFixup(jsonData).reason

\* A deleted NodeLost pod whose init phase had computed another reason.
C12_Witness ==
  /\ lastCall = "miss"
  /\ Deleted(jsonData)
  /\ StrOr(jsonData.status, "reason") = "NodeLost"
  /\ AfterFixup(jsonData).reason = "Init:ErrImagePull"
  /\ returned.reason = "Unknown"

InitStatuses(pod) == ListOr(pod.status, "initContainerStatuses")

MainStatuses(pod) == ListOr(pod.status, "containerStatuses")

\* The container terminated with exit code 0.
Passed(container) ==
  Has(container.state, "terminated") /\ container.state.terminated.exitCode = 0

\* The index of the first init container that did not pass, 0 when all did.
FirstBlocking(pod) ==
  LET blocking == {i \in 1..Len(InitStatuses(pod)) : ~Passed(InitStatuses(pod)[i])}
  IN  IF blocking = {} THEN 0
      ELSE CHOOSE i \in blocking : \A j \in blocking : i <= j

\* The snapshot without its init containers after the k-th and without its
\* main container statuses.
OnlyInitUpTo(pod, k) ==
  [pod EXCEPT !.status =
     ("initContainerStatuses" :> SubSeq(InitStatuses(pod), 1, k))
       @@ [f \in DOMAIN pod.status \ {"initContainerStatuses", "containerStatuses"}
             |-> pod.status[f]]]

\* C13: when an init container blocks, a returned reason and message are
\* those of the first init container that did not exit with 0, by its kind
\* (terminated, waiting with a reason other than PodInitializing, or else
\* Init:<index>/<spec init containers>), and the result is the one of the
\* snapshot without the later init containers and without main containers.
C13_FirstBlockingInit ==
  (Returned /\ FirstBlocking(jsonData) > 0) =>
    LET k == FirstBlocking(jsonData)
        state == InitStatuses(jsonData)[k].state
    IN  /\ returned = NewDetails(OnlyInitUpTo(jsonData, k))
        /\ returned.readyContainers = 0
        /\ IF Has(state, "terminated")
           THEN /\ returned.message = StrOr(state.terminated, "message")
                /\ \/ Deleted(jsonData)
                   \/ StrOr(state.terminated, "reason") = ""
                   \/ returned.reason = "Init:" \o state.terminated.reason
           ELSE IF /\ Has(state, "waiting")
                   /\ StrOr(state.waiting, "reason") \notin {"", "PodInitializing"}
           THEN /\ returned.message = StrOr(state.waiting, "message")
                /\ \/ Deleted(jsonData)
                   \/ returned.reason = "Init:" \o state.waiting.reason
           ELSE /\ returned.message = ""
                /\ \/ Deleted(jsonData)
                   \/ returned.reason =
                        "Init:" \o ToString(k - 1) \o "/"
                          \o ToString(Len(ListOr(jsonData.spec, "initContainers")))

\* A waiting init container followed by a failed one: the first one decides.
C13_Witness ==
  /\ lastCall = "miss"
  /\ Len(InitStatuses(jsonData)) = 2
  /\ InitStatuses(jsonData)[1].state = PullError
  /\ InitStatuses(jsonData)[2].state = Failed
  /\ returned.reason = "Init:ErrImagePull"
  /\ returned.message = "pull failed"

HasWaitingReason(container) ==
  Has(container.state, "waiting") /\ StrOr(container.state.waiting, "reason") # ""

HasTerminatedReason(container) ==
  /\ Has(container.state, "terminated")
  /\ StrOr(container.state.terminated, "reason") # ""

HasEmptyTerminatedReason(container) ==
  /\ Has(container.state, "terminated")
  /\ Has(container.state.terminated, "reason")
  /\ container.state.terminated.reason = ""

ReadyAndRunning(container) ==
  container.ready /\ Has(container.state, "running")

\* The main containers that have a waiting reason or a terminated reason.
Named(pod) ==
  {i \in 1..Len(MainStatuses(pod)) :
     \/ HasWaitingReason(MainStatuses(pod)[i])
     \/ HasTerminatedReason(MainStatuses(pod)[i])}

\* Those, and the ones terminated with the empty string for a reason.
Deciding(pod) ==
  Named(pod) \cup
    {i \in 1..Len(MainStatuses(pod)) : HasEmptyTerminatedReason(MainStatuses(pod)[i])}

Lowest(S) == CHOOSE i \in S : \A j \in S : i <= j

ReasonOf(container) ==
  IF HasWaitingReason(container) THEN container.state.waiting.reason
  ELSE IF HasTerminatedReason(container) THEN container.state.terminated.reason
  ELSE SynthesizedReason(container.state.terminated)

MessageOf(container) ==
  IF HasWaitingReason(container) THEN StrOr(container.state.waiting, "message")
  ELSE StrOr(container.state.terminated, "message")

ReadyCount(pod) ==
  Cardinality({i \in 1..Len(MainStatuses(pod)) : ReadyAndRunning(MainStatuses(pod)[i])})

\* A returned status carries the message of container, and its reason unless
\* the Completed branch or a deletion replaced it.
DecidedBy(pod, container) ==
  /\ returned.message = MessageOf(container)
  /\ returned.readyContainers = ReadyCount(pod)
  /\ \/ Deleted(pod)
     \/ ReasonOf(container) = "Completed" /\ ReadyCount(pod) > 0
          /\ returned.reason \in {"Running", "NotReady"}
     \/ returned.reason = ReasonOf(container)

\* C14 as stated: when no init container blocks, reason and message are
\* those of the lowest-index main container that has a waiting reason or a
\* terminated state with a reason; readyContainers counts the ready and
\* running ones.
C14_FirstNamedDecides ==
  (Returned /\ FirstBlocking(jsonData) = 0 /\ Named(jsonData) # {}) =>
    DecidedBy(jsonData, MainStatuses(jsonData)[Lowest(Named(jsonData))])

\* C14 amended: the deciding container is the lowest-index one that has a
\* waiting reason, a terminated reason, or a terminated state whose reason
\* is the empty string (its reason is then the synthesized one).
C14_FirstDecidingDecides ==
  (Returned /\ FirstBlocking(jsonData) = 0 /\ Deciding(jsonData) # {}) =>
    DecidedBy(jsonData, MainStatuses(jsonData)[Lowest(Deciding(jsonData))])

\* A container killed with reason "" declared ahead of a waiting one.
C14_Witness ==
  /\ lastCall = "miss"
  /\ FirstBlocking(jsonData) = 0
  /\ ~Deleted(jsonData)
  /\ Len(MainStatuses(jsonData)) = 2
  /\ MainStatuses(jsonData)[1].state = Killed
  /\ MainStatuses(jsonData)[2].state = PullError
  /\ returned.reason = "Signal:9"
  /\ returned.message = ""

\* C15: the reason of a returned status is a string that is not empty.
C15_ReasonNonEmpty ==
  Returned => returned.reason \notin {"", Undefined}

\* A pod with no status reason and no container status: the phase is given.
C15_Witness ==
  /\ lastCall = "miss"
  /\ ~Has(jsonData.status, "reason")
  /\ ~Deleted(jsonData)
  /\ InitStatuses(jsonData) = <<>> /\ MainStatuses(jsonData) = <<>>
  /\ returned.reason = "Pending"

\* The values of the tailLines parameters of an endpoint, in order.
TailLinesParams(endpoint) ==
  LET at == {i \in 1..Len(endpoint.query) : endpoint.query[i][1] = "tailLines"}
  IN  [i \in at |-> endpoint.query[i][2]]

Quiet(s) ==
  /\ kind'[s] = kind[s]
  /\ connects'[s] = connects[s]
  /\ fails'[s] = fails[s]
  /\ received'[s] = received[s]

\* C16: with two log sessions open, after every step the buffer of a
\* session holds the texts of its own non-empty frames since its own last
\* connect, its onReconnectStop has run once if and only if the session
\* itself failed and supplied one, and a step in which a session has no
\* event leaves its buffer, its deliveries and its notification alone.
C16_SessionsIndependent ==
  [][\A s \in Sessions :
       kind'[s] = "log" =>
         /\ logs'[s] = DecodeAll(NonEmpty(received'[s]))
         /\ stops'[s] = IF fails'[s] >= 1 /\ follow'[s] /\ onReconnectStop'[s]
                        THEN 1 ELSE 0
         /\ isReconnecting'[s] = ~(fails'[s] >= 1 /\ follow'[s])
         /\ Quiet(s) =>
              /\ logs'[s] = logs[s]
              /\ handed'[s] = handed[s]
              /\ nResults'[s] = nResults[s]
              /\ stops'[s] = stops[s]
              /\ isReconnecting'[s] = isReconnecting[s]]_streamVars

\* Two log sessions with different buffers, one of them reconnected, each
\* notified once of its own failure.
C16_Witness ==
  /\ kind[1] = "log" /\ kind[2] = "log"
  /\ connects[1] = 0 /\ connects[2] = 1
  /\ Len(logs[1]) = 2 /\ Len(logs[2]) = 1
  /\ handed[1] = logs[1] /\ handed[2] = logs[2]
  /\ fails[1] = 1 /\ fails[2] = 1
  /\ stops[1] = 1 /\ stops[2] = 1

\* The containers the loops visit: the init containers up to the first one
\* that blocks, or all init containers and all main containers.
Visited(pod) ==
  IF FirstBlocking(pod) > 0
  THEN SubSeq(InitStatuses(pod), 1, FirstBlocking(pod))
  ELSE InitStatuses(pod) \o MainStatuses(pod)

RECURSIVE SumRestarts(_)
SumRestarts(statuses) ==
  IF statuses = <<>> THEN 0
  ELSE Head(statuses).restartCount + SumRestarts(Tail(statuses))

\* C18: restarts of a returned status is the sum of restartCount over the
\* init containers up to and including the first blocking one when one
\* blocks, and over all main containers when none does.
C18_RestartAccounting ==
  Returned =>
    returned.restarts =
      IF FirstBlocking(jsonData) > 0
      THEN SumRestarts(SubSeq(InitStatuses(jsonData), 1, FirstBlocking(jsonData)))
      ELSE SumRestarts(MainStatuses(jsonData))

\* An init container that restarted and passed, ahead of a main container
\* that restarted twice: only the latter counts.
C18_Witness ==
  /\ lastCall = "miss"
  /\ FirstBlocking(jsonData) = 0
  /\ Len(InitStatuses(jsonData)) = 1 /\ InitStatuses(jsonData)[1].restartCount = 1
  /\ Len(MainStatuses(jsonData)) = 1 /\ MainStatuses(jsonData)[1].restartCount = 2
  /\ returned.restarts = 2

\* The finishedAt of the last terminations of a list of containers.
FinishedAts(statuses) ==
  {statuses[i].lastState.terminated.finishedAt :
     i \in {j \in 1..Len(statuses) :
              /\ Has(statuses[j], "lastState")
              /\ Has(statuses[j].lastState, "terminated")}}

Latest(S) == CHOOSE x \in S : \A y \in S : y <= x

\* C19: lastRestartDate of a returned status is the latest of epoch zero and
\* the lastState.terminated.finishedAt of the containers visited, init and
\* main alike.
C19_LastRestartDate ==
  Returned =>
    returned.lastRestartDate = Latest({0} \cup FinishedAts(Visited(jsonData)))

\* The init container finished last: its date survives the main phase,
\* where restarts start again from 0.
C19_Witness ==
  /\ lastCall = "miss"
  /\ FirstBlocking(jsonData) = 0
  /\ FinishedAts(InitStatuses(jsonData)) = {2}
  /\ FinishedAts(MainStatuses(jsonData)) = {1}
  /\ returned.lastRestartDate = 2
  /\ returned.restarts = 1

\* The reasons C20 allows for a terminated state that has none of its own.
MadeUp(terminated) ==
  IF Has(terminated, "signal")
  THEN {IF terminated.signal # 0
        THEN "Signal:" \o ToString(terminated.signal)
        ELSE "ExitCode:" \o ToString(terminated.exitCode)}
  ELSE {"Signal:" \o Undefined, "ExitCode:" \o ToString(terminated.exitCode)}

\* C20: the reason of a pod that is not deleted is, for a blocking init
\* container terminated with an empty or absent reason, "Init:" and then
\* "Signal:<signal>" when the signal is not 0 and "ExitCode:<exitCode>"
\* otherwise; for a first main container terminated with an empty or absent
\* reason, when no init container blocks, the same without "Init:".
C20_SynthesizedReason ==
  (Returned /\ ~Deleted(jsonData)) =>
    IF FirstBlocking(jsonData) > 0
    THEN LET state == InitStatuses(jsonData)[FirstBlocking(jsonData)].state
         IN  (Has(state, "terminated") /\ StrOr(state.terminated, "reason") = "")
               => returned.reason \in {"Init:" \o r : r \in MadeUp(state.terminated)}
    ELSE MainStatuses(jsonData) # <<>> =>
           LET state == MainStatuses(jsonData)[1].state
           IN  (Has(state, "terminated") /\ StrOr(state.terminated, "reason") = "")
                 => returned.reason \in MadeUp(state.terminated)

====
